---------------------------- MODULE Spec2Model ----------------------------
(***************************************************************************)
(* Model of calcular_amortizacion_con_pagos_anuales (src/app.py): the      *)
(* month-by-month amortization of a fixed-payment loan with recurring      *)
(* yearly extra payments and the optional early payoff at 25% of the       *)
(* original principal.                                                     *)
(*                                                                         *)
(* Python's float arithmetic is modelled by exact rational arithmetic: a   *)
(* number is a pair <<n, d>> in lowest terms with d > 0.  Rounding error   *)
(* of the binary floating point format is therefore outside the model.     *)
(***************************************************************************)
EXTENDS Integers, Sequences, FiniteSets, TLC

VARIABLES
    \* arguments of the call (src/app.py:6-14)
    credito_total, tasa_interes_anual, plazo_anios, inicio_credito,
    pagos_recurrentes, liquidar_al_25, tasa_seguros_anual,
    \* position in the function body
    pc,
    \* locals (src/app.py:21-44)
    pago_mensual_aproximado, saldo_pendiente, meses, liquidacion_aplicada,
    fecha_liquidacion, saldo_para_liquidar, current_date,
    total_intereses_pagados, total_pagos_mensuales, total_pagos_extra,
    total_liquidacion, amort_data,
    \* return value (src/app.py:113-125)
    resumen, results_df

args == <<credito_total, tasa_interes_anual, plazo_anios, inicio_credito,
          pagos_recurrentes, liquidar_al_25, tasa_seguros_anual>>

locals == <<pago_mensual_aproximado, saldo_pendiente, meses,
            liquidacion_aplicada, fecha_liquidacion, saldo_para_liquidar,
            current_date, total_intereses_pagados, total_pagos_mensuales,
            total_pagos_extra, total_liquidacion, amort_data>>

vars == <<args, pc, locals, resumen, results_df>>

---------------------------------------------------------------------------
(* Exact rational arithmetic standing for Python floats.                   *)

Abs(n) == IF n < 0 THEN -n ELSE n

RECURSIVE GCD(_, _)
GCD(a, b) == IF b = 0 THEN a ELSE GCD(b, a % b)

Norm(n, d) ==
    IF n = 0 THEN <<0, 1>>
    ELSE LET g == GCD(Abs(n), Abs(d))
             s == IF d < 0 THEN -1 ELSE 1
         IN  <<s * (n \div g), s * (d \div g)>>

R(n) == <<n, 1>>

RNeg(a) == <<-a[1], a[2]>>

RAdd(a, b) ==
    LET g == GCD(a[2], b[2])
        L == (a[2] \div g) * b[2]
    IN  Norm(a[1] * (L \div a[2]) + b[1] * (L \div b[2]), L)

RSub(a, b) == RAdd(a, RNeg(b))

RMul(a, b) ==
    IF a[1] = 0 \/ b[1] = 0 THEN <<0, 1>>
    ELSE LET g1 == GCD(Abs(a[1]), b[2])
             g2 == GCD(Abs(b[1]), a[2])
         IN  <<(a[1] \div g1) * (b[1] \div g2), (a[2] \div g2) * (b[2] \div g1)>>

RInv(a) == IF a[1] > 0 THEN <<a[2], a[1]>> ELSE <<-a[2], -a[1]>>

RDiv(a, b) == RMul(a, RInv(b))

RLt(a, b) == RSub(a, b)[1] < 0
RLe(a, b) == RSub(a, b)[1] <= 0
RGt(a, b) == RLt(b, a)

RECURSIVE RPow(_, _)
RPow(a, k) == IF k = 0 THEN R(1) ELSE RMul(a, RPow(a, k - 1))

Zero == R(0)

(* round(x, 2): the nearest multiple of 1/100, ties to the even one.       *)
Round2(x) ==
    LET n     == Abs(x[1])
        d     == x[2]
        whole == n \div d
        frac  == n % d
        down  == 100 * whole + ((100 * frac) \div d)
        rest  == (100 * frac) % d
        cents == IF 2 * rest > d THEN down + 1
                 ELSE IF 2 * rest < d THEN down
                 ELSE IF down % 2 = 0 THEN down ELSE down + 1
    IN  Norm((IF x[1] < 0 THEN -1 ELSE 1) * cents, 100)

---------------------------------------------------------------------------
(* Calendar: datetime + relativedelta(months=1) and strftime("%Y-%m-%d").  *)

NoneValue == <<>>

IsLeap(y) == (y % 4 = 0 /\ y % 100 # 0) \/ y % 400 = 0

DaysInMonth(y, m) ==
    IF m = 2 THEN (IF IsLeap(y) THEN 29 ELSE 28)
    ELSE IF m \in {4, 6, 9, 11} THEN 30 ELSE 31

Min(a, b) == IF a < b THEN a ELSE b

(* d + relativedelta(months=1): the next month, the day clamped to its     *)
(* length.                                                                 *)
AddOneMonth(d) ==
    LET y == IF d[2] = 12 THEN d[1] + 1 ELSE d[1]
        m == IF d[2] = 12 THEN 1 ELSE d[2] + 1
    IN  <<y, m, Min(d[3], DaysInMonth(y, m))>>

(* The digits of "%Y-%m-%d" read as one number YYYYMMDD.                   *)
Strftime(d) == d[1] * 10000 + d[2] * 100 + d[3]

---------------------------------------------------------------------------
(* Bounds of the model.                                                    *)

\* The loop of src/app.py:46 has no iteration ceiling; the model stops
\* following a run after MaxMeses iterations.
MaxMeses == 26

\* Longest list of recurring extra payments passed to the call.
MaxExtras == 2

(* Arguments the call is made with.  Monthly rates of 0, 1 and 2 keep the  *)
(* exact values of a 12-month loan inside the range of TLC's integers.     *)
CreditoTotalChoices == {R(4095), R(8190)}
TasaInteresAnualChoices == {R(0), R(12), R(24)}
PlazoAniosChoices == {1}
TasaSegurosAnualChoices == {R(0), R(12)}
InicioCreditoChoices == {<<2025, 1, 31>>, <<2025, 1, 28>>, <<2023, 11, 30>>}
PagoExtraChoices ==
    {<<5, 28, R(3100)>>, <<3, 31, R(1000)>>, <<5, 29, R(-2000)>>}

SeqsUpTo(S, n) == UNION {[1..k -> S] : k \in 0..n}

---------------------------------------------------------------------------
(* The arithmetic of the function body, one operator per expression.       *)

\* src/app.py:21
TasaInteresMensual(tasa_anual) == RDiv(tasa_anual, R(12))

\* src/app.py:24, the denominator 1 - (1 + i) ** -(plazo * 12)
Denominador(tasa_mensual, plazo) ==
    RSub(R(1), RInv(RPow(RAdd(R(1), tasa_mensual), plazo * 12)))

\* src/app.py:24
PagoMensualSinSeguros(credito, tasa_mensual, plazo) ==
    RDiv(RMul(tasa_mensual, credito), Denominador(tasa_mensual, plazo))

\* src/app.py:27 and :53, (saldo * tasa_seguros_anual) / 12
CostoSegurosMensual(saldo, tasa_seguros) ==
    RDiv(RMul(saldo, tasa_seguros), R(12))

\* Slip: the insurance add-on of line 27 left out of the fixed payment.
PagoMensualAproximado_SinSeguro(credito, tasa_anual, plazo, tasa_seguros) ==
    PagoMensualSinSeguros(credito, TasaInteresMensual(tasa_anual), plazo)

\* src/app.py:28
PagoMensualAproximado(credito, tasa_anual, plazo, tasa_seguros) ==
    RAdd(PagoMensualSinSeguros(credito, TasaInteresMensual(tasa_anual), plazo),
         CostoSegurosMensual(credito, tasa_seguros))

\* src/app.py:52
InteresMes(saldo, tasa_mensual) == RMul(saldo, tasa_mensual)

\* src/app.py:55-57
AbonoCapital(pago, interes, seguro) ==
    LET abono == RSub(RSub(pago, interes), seguro)
    IN  IF RLt(abono, Zero) THEN Zero ELSE abono

\* src/app.py:70
FechaCoincide(fecha, pago_ext) == fecha[2] = pago_ext[1] /\ fecha[3] = pago_ext[2]

\* Slip: the extra payment added to the balance instead of subtracted.
AplicarPagoExtra_Suma(saldo, monto) == RAdd(saldo, monto)

\* src/app.py:71
AplicarPagoExtra(saldo, monto) == RSub(saldo, monto)

\* src/app.py:67-72: the pair <<saldo_pendiente, pago_extra_total>> after the
\* loop over pagos_recurrentes, entered at index i.
RECURSIVE AplicarPagosExtra(_, _, _, _, _)
AplicarPagosExtra(saldo, total, fecha, pagos, i) ==
    IF i > Len(pagos) THEN <<saldo, total>>
    ELSE IF FechaCoincide(fecha, pagos[i])
         THEN AplicarPagosExtra(AplicarPagoExtra(saldo, pagos[i][3]),
                                RAdd(total, pagos[i][3]), fecha, pagos, i + 1)
         ELSE AplicarPagosExtra(saldo, total, fecha, pagos, i + 1)

\* Slip: the payoff window opened at 50% of the original principal.
CondicionLiquidacion_Umbral50(liquidar, aplicada, saldo, credito) ==
    /\ liquidar
    /\ ~aplicada
    /\ RLe(saldo, RMul(credito, <<1, 2>>))
    /\ RGt(saldo, Zero)

\* src/app.py:78
CondicionLiquidacion(liquidar, aplicada, saldo, credito) ==
    /\ liquidar
    /\ ~aplicada
    /\ RLe(saldo, RMul(credito, <<1, 4>>))
    /\ RGt(saldo, Zero)

\* src/app.py:79
MontoLiquidacion(saldo) == RDiv(saldo, R(2))

\* Slip: the clamp of lines 87-88 left out.
SaldoNoNegativo_SinClamp(saldo) == saldo

\* src/app.py:87-88
SaldoNoNegativo(saldo) == IF RLt(saldo, Zero) THEN Zero ELSE saldo

\* src/app.py:101
SiNo(b) == IF b THEN "Sí" ELSE "No"

\* Slip: the break of line 108 left out.
TerminaPorLiquidacion_SinBreak(liq_aplicada_este_mes) == FALSE

\* src/app.py:105
TerminaPorLiquidacion(liq_aplicada_este_mes) == liq_aplicada_este_mes

(* One pass of the loop body, src/app.py:47-108, as a function of the      *)
(* values it reads.                                                        *)
Mes(saldo, fecha_ant, aplicada, pago, credito, tasa, tasa_seg, pagos, liquidar) ==
    LET fecha     == AddOneMonth(fecha_ant)
        interes   == InteresMes(saldo, TasaInteresMensual(tasa))
        seguro    == CostoSegurosMensual(saldo, tasa_seg)
        abono     == AbonoCapital(pago, interes, seguro)
        extra     == AplicarPagosExtra(RSub(saldo, abono), Zero, fecha, pagos, 1)
        liq       == CondicionLiquidacion(liquidar, aplicada, extra[1], credito)
        monto_liq == IF liq THEN MontoLiquidacion(extra[1]) ELSE Zero
        final     == SaldoNoNegativo(RSub(extra[1], monto_liq))
    IN  [fecha |-> fecha, saldo_inicial |-> saldo, interes |-> interes,
         seguro |-> seguro, abono_capital |-> abono, pago_extra |-> extra[2],
         liq_aplicada_este_mes |-> liq, monto_liquidacion |-> monto_liq,
         saldo_final |-> final]

---------------------------------------------------------------------------
(* The state machine.                                                      *)

Init ==
    /\ credito_total \in CreditoTotalChoices
    /\ tasa_interes_anual \in TasaInteresAnualChoices
    /\ plazo_anios \in PlazoAniosChoices
    /\ inicio_credito \in InicioCreditoChoices
    /\ pagos_recurrentes \in SeqsUpTo(PagoExtraChoices, MaxExtras)
    /\ liquidar_al_25 \in BOOLEAN
    /\ tasa_seguros_anual \in TasaSegurosAnualChoices
    /\ pc = "call"
    /\ pago_mensual_aproximado = Zero
    /\ saldo_pendiente = Zero
    /\ meses = 0
    /\ liquidacion_aplicada = FALSE
    /\ fecha_liquidacion = NoneValue
    /\ saldo_para_liquidar = Zero
    /\ current_date = NoneValue
    /\ total_intereses_pagados = Zero
    /\ total_pagos_mensuales = Zero
    /\ total_pagos_extra = Zero
    /\ total_liquidacion = Zero
    /\ amort_data = <<>>
    /\ resumen = NoneValue
    /\ results_df = NoneValue

(* src/app.py:24 with a zero denominator: the float division raises        *)
(* ZeroDivisionError and the call ends without a result.                   *)
SetupRaises ==
    /\ pc = "call"
    /\ Denominador(TasaInteresMensual(tasa_interes_anual), plazo_anios) = Zero
    /\ pc' = "raised"
    /\ UNCHANGED <<args, locals, resumen, results_df>>

(* src/app.py:21-44 *)
Setup ==
    /\ pc = "call"
    /\ Denominador(TasaInteresMensual(tasa_interes_anual), plazo_anios) # Zero
    /\ pago_mensual_aproximado' =
           PagoMensualAproximado(credito_total, tasa_interes_anual, plazo_anios,
                                 tasa_seguros_anual)
    /\ saldo_pendiente' = credito_total
    /\ meses' = 0
    /\ liquidacion_aplicada' = FALSE
    /\ fecha_liquidacion' = NoneValue
    /\ saldo_para_liquidar' = Zero
    /\ current_date' = inicio_credito
    /\ total_intereses_pagados' = Zero
    /\ total_pagos_mensuales' = Zero
    /\ total_pagos_extra' = Zero
    /\ total_liquidacion' = Zero
    /\ amort_data' = <<>>
    /\ pc' = "loop"
    /\ UNCHANGED <<args, resumen, results_df>>

(* src/app.py:46-108: one iteration of `while saldo_pendiente > 0`.        *)
Iterate ==
    /\ pc = "loop"
    /\ RGt(saldo_pendiente, Zero)
    /\ meses < MaxMeses
    /\ LET m == Mes(saldo_pendiente, current_date, liquidacion_aplicada,
                    pago_mensual_aproximado, credito_total, tasa_interes_anual,
                    tasa_seguros_anual, pagos_recurrentes, liquidar_al_25)
       IN  /\ meses' = meses + 1
           /\ current_date' = m.fecha
           /\ total_pagos_mensuales' =
                  RAdd(total_pagos_mensuales, pago_mensual_aproximado)
           /\ total_intereses_pagados' = RAdd(total_intereses_pagados, m.interes)
           /\ total_pagos_extra' = RAdd(total_pagos_extra, m.pago_extra)
           /\ total_liquidacion' = RAdd(total_liquidacion, m.monto_liquidacion)
           /\ liquidacion_aplicada' =
                  (liquidacion_aplicada \/ m.liq_aplicada_este_mes)
           /\ fecha_liquidacion' =
                  IF m.liq_aplicada_este_mes THEN m.fecha ELSE fecha_liquidacion
           /\ saldo_para_liquidar' =
                  IF m.liq_aplicada_este_mes THEN m.monto_liquidacion
                  ELSE saldo_para_liquidar
           /\ amort_data' = Append(amort_data,
                  [Mes |-> meses + 1,
                   Fecha |-> Strftime(m.fecha),
                   Saldo_Inicial |-> m.saldo_inicial,
                   Interes |-> m.interes,
                   Seguro |-> m.seguro,
                   Pago_Mensual |-> pago_mensual_aproximado,
                   Abono_a_Capital |-> m.abono_capital,
                   Pago_Extra |-> m.pago_extra,
                   Saldo_Final |-> m.saldo_final,
                   Liquidacion_Anticipada_Aplicada |->
                       SiNo(m.liq_aplicada_este_mes)])
           /\ IF TerminaPorLiquidacion(m.liq_aplicada_este_mes)
              THEN saldo_pendiente' = Zero /\ pc' = "fin"
              ELSE saldo_pendiente' = m.saldo_final /\ pc' = "loop"
    /\ UNCHANGED <<args, pago_mensual_aproximado, resumen, results_df>>

(* src/app.py:110-125, reached when the loop condition fails or after the  *)
(* break of line 108.                                                      *)
Finish ==
    /\ \/ pc = "fin"
       \/ pc = "loop" /\ ~RGt(saldo_pendiente, Zero)
    /\ resumen' =
           [duracion_total_meses |-> meses,
            fecha_liquidacion |-> fecha_liquidacion,
            pago_mensual |-> Round2(pago_mensual_aproximado),
            credito_total |-> credito_total,
            tasa_interes_anual |-> tasa_interes_anual,
            saldo_liquidacion |-> Round2(saldo_para_liquidar),
            total_intereses_pagados |-> Round2(total_intereses_pagados),
            total_pagado |-> Round2(RAdd(RAdd(total_pagos_mensuales,
                                              total_pagos_extra),
                                         total_liquidacion))]
    /\ results_df' = amort_data
    /\ pc' = "done"
    /\ UNCHANGED <<args, locals>>

Next == SetupRaises \/ Setup \/ Iterate \/ Finish

Spec == Init /\ [][Next]_vars

---------------------------------------------------------------------------
(* Vocabulary of the properties.                                           *)

Emitted == 1..Len(amort_data)

Flagged(data) ==
    {i \in 1..Len(data) : data[i].Liquidacion_Anticipada_Aplicada = "Sí"}

\* Balance of record rec after its principal portion and its extra payments.
SaldoTrasExtras(rec) ==
    RSub(RSub(rec.Saldo_Inicial, rec.Abono_a_Capital), rec.Pago_Extra)

\* The payoff window: 0 < balance <= 25% of the original principal.
EnUmbral(rec) ==
    /\ RGt(SaldoTrasExtras(rec), Zero)
    /\ RLe(SaldoTrasExtras(rec), RDiv(credito_total, R(4)))

\* Sum of principal portion + extra payment over records 1..i.
RECURSIVE SumaAbonosYExtras(_, _)
SumaAbonosYExtras(data, i) ==
    IF i = 0 THEN Zero
    ELSE RAdd(SumaAbonosYExtras(data, i - 1),
              RAdd(data[i].Abono_a_Capital, data[i].Pago_Extra))

\* The start date advanced by n calendar months in one step, the day clamped
\* to the length of the target month.
AddMonths(d, n) ==
    LET t == d[2] - 1 + n
        y == d[1] + (t \div 12)
        m == (t % 12) + 1
    IN  <<y, m, Min(d[3], DaysInMonth(y, m))>>

\* Sum of the amounts of the recurring payments dated (month, day) of fecha.
RECURSIVE SumaCoincidentes(_, _, _)
SumaCoincidentes(fecha, pagos, i) ==
    IF i = 0 THEN Zero
    ELSE RAdd(SumaCoincidentes(fecha, pagos, i - 1),
              IF fecha[2] = pagos[i][1] /\ fecha[3] = pagos[i][2]
              THEN pagos[i][3] ELSE Zero)

\* The ending balances, month by month, of the same loan simulated with no
\* recurring extra payments.
RECURSIVE SaldosSinExtras(_, _, _, _)
SaldosSinExtras(saldo, fecha, aplicada, k) ==
    IF ~RGt(saldo, Zero) \/ k = 0 THEN <<>>
    ELSE LET m == Mes(saldo, fecha, aplicada, pago_mensual_aproximado,
                      credito_total, tasa_interes_anual, tasa_seguros_anual,
                      <<>>, liquidar_al_25)
         IN  IF m.liq_aplicada_este_mes
             THEN <<m.saldo_final>>
             ELSE <<m.saldo_final>> \o
                  SaldosSinExtras(m.saldo_final, m.fecha, aplicada, k - 1)

Started == pc \in {"loop", "fin", "done"}

PagosNoNegativos ==
    \A i \in 1..Len(pagos_recurrentes) : RLe(Zero, pagos_recurrentes[i][3])

---------------------------------------------------------------------------
(* C1: every call with principal > 0, term >= 1 year, annual rate >= 0,    *)
(* insurance rate >= 0, no recurring extras and the early payoff disabled  *)
(* returns a schedule, and the last record of that schedule has ending     *)
(* balance 0.                                                              *)
C1_ReturnsSchedule ==
    ( /\ RGt(credito_total, Zero)
      /\ plazo_anios >= 1
      /\ RLe(Zero, tasa_interes_anual)
      /\ RLe(Zero, tasa_seguros_anual)
      /\ pagos_recurrentes = <<>>
      /\ ~liquidar_al_25 )
    => /\ pc # "raised"
       /\ pc = "done" =>
              /\ Len(results_df) > 0
              /\ results_df[Len(results_df)].Saldo_Final = Zero

(* C2: a simulation that makes no progress is stopped with an explicit     *)
(* failure within a bounded number of iterations: the loop never runs      *)
(* beyond twice the nominal term in months.                                *)
C2_FailsExplicitly ==
    pc = "loop" => meses <= 2 * plazo_anios * 12

(* C3: in every returned schedule the last record is the one and only      *)
(* record whose ending balance is 0, whatever ended the loan.              *)
C3_TerminalRecordZero ==
    pc = "done" =>
        \A i \in 1..Len(results_df) :
            (results_df[i].Saldo_Final = Zero) <=> (i = Len(results_df))

(* C4: conservation: for every completed simulation the principal portions *)
(* and extra payments of all records plus the early-payoff amount add up   *)
(* to the original principal (the final balance being 0).                  *)
C4_Conservation ==
    pc = "done" =>
        RAdd(SumaAbonosYExtras(results_df, Len(results_df)),
             saldo_para_liquidar) = credito_total

(* C5: at most one record carries the payoff flag; when the payoff         *)
(* triggered, the flagged record is the terminal one and                   *)
(* duracion_total_meses is its month index; when it did not, no record is  *)
(* flagged, fecha_liquidacion is absent and saldo_liquidacion is 0.        *)
C5_AtMostOnePayoff ==
    /\ Cardinality(Flagged(amort_data)) <= 1
    /\ liquidacion_aplicada <=> Flagged(amort_data) # {}
    /\ liquidacion_aplicada => liquidar_al_25
    /\ pc = "done" =>
           IF liquidacion_aplicada
           THEN /\ Flagged(results_df) = {Len(results_df)}
                /\ resumen.duracion_total_meses =
                       results_df[Len(results_df)].Mes
                /\ resumen.fecha_liquidacion # NoneValue
           ELSE /\ Flagged(results_df) = {}
                /\ resumen.fecha_liquidacion = NoneValue
                /\ resumen.saldo_liquidacion = Zero

C5_Witness ==
    /\ pc = "done"
    /\ liquidacion_aplicada
    /\ Len(results_df) >= 2
    /\ RGt(resumen.saldo_liquidacion, Zero)

(* C6: with the early payoff enabled, month m carries the payoff exactly   *)
(* when m is the first month whose balance after the principal portion and *)
(* the matching extra payments is > 0 and <= 25% of the original           *)
(* principal; the amount paid off is half of that balance.                 *)
C6_PayoffFiresAtFirstThreshold ==
    liquidar_al_25 =>
        \A i \in Emitted :
            /\ (i \in Flagged(amort_data)) <=>
                   /\ EnUmbral(amort_data[i])
                   /\ \A j \in 1..(i - 1) : ~EnUmbral(amort_data[j])
            /\ (i \in Flagged(amort_data)) =>
                   /\ saldo_para_liquidar =
                          RDiv(SaldoTrasExtras(amort_data[i]), R(2))
                   /\ amort_data[i].Saldo_Final =
                          RSub(SaldoTrasExtras(amort_data[i]), saldo_para_liquidar)

\* An extra payment pushes the balance into the window and the payoff fires
\* in that same month.
C6_Witness ==
    /\ liquidar_al_25
    /\ \E i \in Emitted :
           /\ i \in Flagged(amort_data)
           /\ RGt(amort_data[i].Pago_Extra, Zero)
           /\ RGt(RSub(amort_data[i].Saldo_Inicial, amort_data[i].Abono_a_Capital),
                  RDiv(credito_total, R(4)))

(* C7: the ending balance of every record is non-negative, and it is       *)
(* exactly 0 whenever principal portion, extra payments and payoff         *)
(* together exceed the beginning balance.                                  *)
C7_SaldoFinalNoNegativo ==
    \A i \in Emitted :
        LET rec  == amort_data[i]
            paid == RAdd(RAdd(rec.Abono_a_Capital, rec.Pago_Extra),
                         IF i \in Flagged(amort_data)
                         THEN saldo_para_liquidar ELSE Zero)
        IN  /\ RLe(Zero, rec.Saldo_Final)
            /\ RGt(paid, rec.Saldo_Inicial) => rec.Saldo_Final = Zero

C7_Witness ==
    \E i \in Emitted :
        /\ RGt(RAdd(amort_data[i].Abono_a_Capital, amort_data[i].Pago_Extra),
               amort_data[i].Saldo_Inicial)
        /\ amort_data[i].Saldo_Final = Zero

(* C8: the date of record n is the start date advanced by n calendar       *)
(* months (day clamped to the target month), and the extra payment of      *)
(* record n is the sum of the recurring payments dated that (month, day).  *)
C8_FechaIsStartPlusN ==
    \A i \in Emitted :
        /\ amort_data[i].Fecha = Strftime(AddMonths(inicio_credito, i))
        /\ amort_data[i].Pago_Extra =
               SumaCoincidentes(AddMonths(inicio_credito, i), pagos_recurrentes,
                                Len(pagos_recurrentes))

(* C9: with one recurring extra payment of positive amount, the balance is *)
(* at every common month at most the balance of the same loan without      *)
(* extras, and the loan lasts no longer.                                   *)
C9_ExtraNeverSlower ==
    ( /\ Started
      /\ Len(pagos_recurrentes) = 1
      /\ RGt(pagos_recurrentes[1][3], Zero) )
    => LET base == SaldosSinExtras(credito_total, inicio_credito, FALSE, MaxMeses)
       IN  /\ Len(amort_data) <= Len(base)
           /\ \A i \in Emitted : RLe(amort_data[i].Saldo_Final, base[i])
           /\ pc = "done" => resumen.duracion_total_meses <= Len(base)

\* The extra payment was applied and the loan ended strictly earlier.
C9_Witness ==
    /\ pc = "done"
    /\ Len(pagos_recurrentes) = 1
    /\ RGt(total_pagos_extra, Zero)
    /\ resumen.duracion_total_meses <
           Len(SaldosSinExtras(credito_total, inicio_credito, FALSE, MaxMeses))

=============================================================================
